---- MODULE Spec2Model ----
(***************************************************************************)
(* RENIEC RPC responder (src/reniec_server.py) and the load client's       *)
(* correlation router / worker (src/smoke-test/client_load_test.py).       *)
(*                                                                         *)
(* Spec     : one responder process, the broker's request queue and the    *)
(*            storage connection.  on_message is one atomic step; signals  *)
(*            are taken between steps.                                      *)
(* SpecBodies: the same responder, one request per run, every body shape.  *)
(* SpecRpc  : the load client's workers and the responder they call.       *)
(***************************************************************************)
EXTENDS Integers, Sequences, FiniteSets, TLC

\* ------------------------------------------------------------------ bounds
\* Requests the environment publishes to the request queue in one run.
MaxReqs == 2
\* Requests one client publishes in a burst.
MaxBurst == 3

\* Distinct values rand_id("corr", 10) is followed through.
MaxTokens == 2

\* Largest RENIEC_SEED_COUNT the key selection is followed with.
MaxSeedCount == 5

\* _record calls one worker thread makes in a run.
MaxRecords == 2

\* Longest list of latency samples percentiles() is applied to, and the
\* largest sample.
MaxSamples == 4
MaxLatency == 3
\* Times each process declares the topology.
MaxDeclares == 2

\* RABBIT_PREFETCH, environment-configurable (default 8); the model runs with 2.
PREFETCH == 2

\* WORKERS, CLIENTS_PER_WORKER, TX_PER_CLIENT, LOANS_PER_CLIENT are read from the
\* environment (defaults 20, 60, 2, 1); the model runs with 2, 2, 1, 1.
WORKERS == 2
CLIENTS_PER_WORKER == 2
TX_PER_CLIENT == 1
LOANS_PER_CLIENT == 1

\* RENIEC_SEED_BASE, the first key of the bulk seed.
SEED_BASE == 10000000

\* ------------------------------------------------------------------ values
\* Python None / JSON null / an absent dictionary key.
Null == [null |-> TRUE]

Digits == {"0", "1", "2", "3", "4", "5", "6", "7", "8", "9"}
Space == " "

\* A string is a sequence of one-character strings.
K_FIXED == <<"1", "2", "3", "4", "5", "6", "7", "8">>
K_MASS == <<"1", "0", "0", "0", "0", "0", "0", "0">>
K_ABSENT == <<"9", "9", "9", "9", "9", "9", "9", "9">>

Str(s) == [t |-> "str", s |-> s]
Num(n) == [t |-> "int", n |-> n]

\* Table personas after seed_db: one row of the fixed seed (every column set)
\* and the first row of the bulk seed (estado_civil, lugar_nacimiento NULL).
Personas ==
  { [dni |-> K_FIXED, apell_pat |-> "TORRES", apell_mat |-> "MENDOZA",
     nombres |-> "LUIS ALBERTO", fecha_naci |-> "1992-11-05", sexo |-> "M",
     direccion |-> "Sacsayhuaman 789", estado_civil |-> "Casado",
     lugar_nacimiento |-> "Lima"],
    [dni |-> K_MASS, apell_pat |-> "APELLIDO0", apell_mat |-> "MATERNO0",
     nombres |-> "NOMBRE 0", fecha_naci |-> "1990-01-01", sexo |-> "M",
     direccion |-> "CALLE 0", estado_civil |-> "NULL",
     lugar_nacimiento |-> "NULL"] }

\* ------------------------------------------------------------------ normalize_dni
\* str(int): the decimal digits of n.
RECURSIVE IntToStr(_)
IntToStr(n) ==
  IF n < 10 THEN <<CHOOSE c \in Digits : c = ToString(n)>>
  ELSE Append(IntToStr(n \div 10), CHOOSE c \in Digits : c = ToString(n % 10))

PyStr(v) == IF v.t = "int" THEN IntToStr(v.n) ELSE v.s

RECURSIVE LStrip(_)
LStrip(s) == IF s # <<>> /\ Head(s) = Space THEN LStrip(Tail(s)) ELSE s

RECURSIVE RStrip(_)
RStrip(s) ==
  IF s # <<>> /\ s[Len(s)] = Space THEN RStrip(SubSeq(s, 1, Len(s) - 1)) ELSE s

Strip(s) == RStrip(LStrip(s))

IsDigit(c) == c \in Digits

OnlyDigits(s) == SelectSeq(s, IsDigit)

normalize_dni_any_length(value) ==
  IF value = Null THEN Null
  ELSE LET s == OnlyDigits(Strip(PyStr(value)))
       IN IF Len(s) >= 1 THEN s ELSE Null

\* Lines 174-188.
normalize_dni(value) ==
  IF value = Null THEN Null
  ELSE LET s == OnlyDigits(Strip(PyStr(value)))
       IN IF Len(s) = 8 THEN s ELSE Null

\* ------------------------------------------------------------------ pick_dni
\* Lines 75-77.
FIXED_DNIS ==
  << <<"1", "2", "3", "4", "5", "6", "7", "8">>, <<"2", "3", "4", "5", "6", "7", "8", "9">>,
     <<"3", "4", "5", "6", "7", "8", "9", "0">>, <<"4", "5", "6", "7", "8", "9", "0", "1">>,
     <<"5", "6", "7", "8", "9", "0", "1", "2">>, <<"6", "7", "8", "9", "0", "1", "2", "3">>,
     <<"7", "8", "9", "0", "1", "2", "3", "4">> >>

\* format(n, "08d"): the decimal digits of n, zero-filled on the left to 8.
RECURSIVE ZeroFill(_)
ZeroFill(s) == IF Len(s) >= 8 THEN s ELSE ZeroFill(<<"0">> \o s)

Format08d(n) == ZeroFill(IntToStr(n))

\* Line 102: the key comes from the fixed list.
FromFixedList(wid, i, use_fixed) == use_fixed /\ (wid + i) % 8 = 0

pick_dni_no_stride(wid, i, seed_count, use_fixed) ==
  IF FromFixedList(wid, i, use_fixed)
  THEN FIXED_DNIS[((wid + i) % Len(FIXED_DNIS)) + 1]
  ELSE Format08d(SEED_BASE + ((wid + i) % seed_count))

\* Lines 94-106, with SEED_COUNT and USE_FIXED_DNIS as read from the environment.
pick_dni(wid, i, seed_count, use_fixed) ==
  IF FromFixedList(wid, i, use_fixed)
  THEN FIXED_DNIS[((wid + i) % Len(FIXED_DNIS)) + 1]
  ELSE Format08d(SEED_BASE + ((wid * CLIENTS_PER_WORKER + i) % seed_count))

\* ------------------------------------------------------------------ percentiles
\* A percentile is None or a sample.
Sample(x) == [ms |-> x]

\* int(round(num / den)) for num >= 0: Python rounds a half to the even
\* neighbour.  (The code rounds the float (p / 100.0) * (len - 1); both agree
\* wherever the float product is exact to within less than a half.)
PyRound(num, den) ==
  IF 2 * (num % den) > den THEN (num \div den) + 1
  ELSE IF 2 * (num % den) < den THEN num \div den
  ELSE IF (num \div den) % 2 = 0 THEN num \div den
  ELSE (num \div den) + 1

Unsorted(nums) == nums

\* Line 87: sorted(nums).
Sorted(nums) == SortSeq(nums, LAMBDA a, b : a < b)

\* Lines 89-91 for one p.
Percentile(xs, p) == Sample(xs[PyRound(p * (Len(xs) - 1), 100) + 1])

NoPercentiles == [p50 |-> Null, p95 |-> Null, p99 |-> Null]

\* Lines 84-92, ps = (50, 95, 99).
percentiles(nums) ==
  IF nums = <<>> THEN NoPercentiles
  ELSE [p50 |-> Percentile(Sorted(nums), 50),
        p95 |-> Percentile(Sorted(nums), 95),
        p99 |-> Percentile(Sorted(nums), 99)]

\* ------------------------------------------------------------------ request bodies
\* A body is undecodable ("bad"), JSON that is no object ("arr"), or an object
\* with the members dni, data, payload.  data / payload are Null, a truthy
\* non-object ("str"), or an object.
NonDict == [t |-> "nondict"]
Obj(dni, data, payload) == [k |-> "obj", dni |-> dni, data |-> data, payload |-> payload]
Sub(dni, usuario) == [t |-> "dict", dni |-> dni, usuario |-> usuario]
BadBody == [k |-> "bad"]
ArrBody == [k |-> "arr"]

\* Python truthiness of a decoded JSON value.
Truthy(v) ==
  IF v = Null THEN FALSE
  ELSE IF v.t = "str" THEN v.s # <<>>
  ELSE IF v.t = "int" THEN v.n # 0
  ELSE IF v.t = "dict" THEN v.dni # Null \/ v.usuario # Null
  ELSE TRUE

\* (x.get(name) or {}).get(field): [raised |-> TRUE] on a truthy non-object.
SubGet(x, field) ==
  IF ~Truthy(x) THEN [raised |-> FALSE, v |-> Null]
  ELSE IF x.t # "dict" THEN [raised |-> TRUE, v |-> Null]
  ELSE [raised |-> FALSE, v |-> IF field = "dni" THEN x.dni ELSE x.usuario]

\* The or-chain of lines 282-287; evaluation stops at the first truthy operand.
RawDni(body) ==
  IF body.k # "obj" THEN [raised |-> TRUE, v |-> Null]
  ELSE IF Truthy(body.dni) THEN [raised |-> FALSE, v |-> body.dni]
  ELSE LET a == SubGet(body.data, "dni")
           b == SubGet(body.payload, "dni")
           c == SubGet(body.payload, "usuario")
       IN IF a.raised THEN a
          ELSE IF Truthy(a.v) THEN a
          ELSE IF b.raised THEN b
          ELSE IF Truthy(b.v) THEN b
          ELSE c

\* Lines 283-286: the four places a key is read from, in the order of the
\* or-chain; a member that is no object has no field.
Field(x, field) ==
  IF x = Null THEN Null
  ELSE IF x.t # "dict" THEN Null
  ELSE IF field = "dni" THEN x.dni ELSE x.usuario

Candidates(body) ==
  <<body.dni, Field(body.data, "dni"), Field(body.payload, "dni"), Field(body.payload, "usuario")>>

\* An extraction that goes on to the next place when a value is no valid key.
ExtractDniFirstValid(body) ==
  IF body.k # "obj" THEN Null
  ELSE IF \A n \in 1..4 : normalize_dni(Candidates(body)[n]) = Null THEN Null
  ELSE normalize_dni(Candidates(body)[CHOOSE n \in 1..4 :
                        /\ normalize_dni(Candidates(body)[n]) # Null
                        /\ \A k \in 1..(n - 1) : normalize_dni(Candidates(body)[k]) = Null])

\* A falsy last operand (0, "") reaches normalize_dni as it is.
ExtractDni(body) ==
  LET r == RawDni(body)
  IN IF r.raised THEN Null
     ELSE normalize_dni(r.v)

\* ------------------------------------------------------------------ get_person
OptionalColumns == {"fecha_naci", "sexo", "direccion", "estado_civil", "lugar_nacimiento"}

PersonOfRowSwapped(row) ==
  LET opt == {c \in OptionalColumns : row[c] # "NULL"}
  IN [f \in {"dni", "nombres", "apellidoPat", "apellidoMat"} \cup opt |->
        IF f = "apellidoPat" THEN row.apell_mat
        ELSE IF f = "apellidoMat" THEN row.apell_pat
        ELSE row[f]]

\* Lines 207-225: the row as the reply's fields; NULL optional columns are left out.
PersonOfRow(row) ==
  LET opt == {c \in OptionalColumns : row[c] # "NULL"}
  IN [f \in {"dni", "nombres", "apellidoPat", "apellidoMat"} \cup opt |->
        IF f = "apellidoPat" THEN row.apell_pat
        ELSE IF f = "apellidoMat" THEN row.apell_mat
        ELSE row[f]]

\* dbOk: whether the storage connection answers; a dead connection raises.
get_person(dbOk, dni_input) ==
  LET dni == normalize_dni(IF dni_input = Null THEN Null ELSE Str(dni_input))
  IN IF dni = Null THEN [raised |-> FALSE, person |-> Null]
     ELSE IF ~dbOk THEN [raised |-> TRUE, person |-> Null]
     ELSE IF \E r \in Personas : r.dni = dni
          THEN [raised |-> FALSE,
                person |-> PersonOfRow(CHOOSE r \in Personas : r.dni = dni)]
          ELSE [raised |-> FALSE, person |-> Null]

\* ------------------------------------------------------------------ response
EmptyStr == <<>>

ErrResp == [ok |-> FALSE, data |-> Null, error |-> [message |-> "db"]]

ValidData(person) ==
  [f \in {"valid"} \cup DOMAIN person |-> IF f = "valid" THEN TRUE ELSE person[f]]

InvalidData(dni) == [valid |-> FALSE, dni |-> IF dni = Null THEN EmptyStr ELSE dni]

LookupCalled(dni) == dni # Null

BuildResponseNoExcept(dni, dbOk) ==
  LET g == IF LookupCalled(dni) THEN get_person(dbOk, dni)
           ELSE [raised |-> FALSE, person |-> Null]
  IN [escaped |-> g.raised,
      resp |-> IF g.raised THEN Null
               ELSE [ok |-> TRUE,
                     data |-> IF g.person # Null THEN ValidData(g.person)
                              ELSE InvalidData(dni)]]

\* Lines 292-300: the lookup's failure is caught and becomes the ok:false
\* reply; escaped says whether an exception leaves the block.
BuildResponse(dni, dbOk) ==
  LET g == IF LookupCalled(dni) THEN get_person(dbOk, dni)
           ELSE [raised |-> FALSE, person |-> Null]
  IN [escaped |-> FALSE,
      resp |-> IF g.raised THEN ErrResp
               ELSE [ok |-> TRUE,
                     data |-> IF g.person # Null THEN ValidData(g.person)
                              ELSE InvalidData(dni)]]

\* ------------------------------------------------------------------ reply
\* A message property that is not set (Python None).
None == "<None>"

HasReplyToNotNone(reply_to) == reply_to # None

\* Line 309: "if not reply_to" (None and "" are both falsy).
HasReplyTo(reply_to) == reply_to # None /\ reply_to # ""

ReplyPublishFreshCorr(tag, corr_id, reply_to, resp) ==
  [tag |-> tag, exchange |-> "", routing_key |-> reply_to,
   correlation_id |-> None, body |-> resp]

\* Lines 303-317: the publish of the reply.
ReplyPublish(tag, corr_id, reply_to, resp) ==
  [tag |-> tag, exchange |-> "", routing_key |-> reply_to,
   correlation_id |-> corr_id, body |-> resp]

AckCalledAfterPublish(pubTried, pubOk) == pubTried => pubOk

\* Lines 308-320: try / finally.  basic_ack is called whatever the try block
\* did; pubTried and pubOk say what the try block did.
AckCalled(pubTried, pubOk) == TRUE

\* Lines 322-331: the probe runs only when nothing was raised before it.
ProbeRuns(pubTried, pubOk, ackOk) == (pubTried => pubOk) /\ ackOk

IgnoreProbeFailure(probeFailed) == FALSE

\* Lines 326-331: a failed probe closes the handle and calls connect_db.
ReconnectOnProbeFailure(probeFailed) == probeFailed

\* ------------------------------------------------------------------ topology
\* Lines 62-64 of the responder, line 57 of the load client: both read the
\* exchange name from RABBIT_EXCHANGE, with the same default.
EXCHANGE == "rabbit_exchange"
RENIEC_QUEUE == "reniec_queue"
RENIEC_ROUTING == "reniec_operation"
RABBIT_EXCHANGE == "rabbit_exchange"

\* Line 258: exchange_declare(exchange=EXCHANGE, exchange_type="direct", durable=True).
ResponderExchange == [name |-> EXCHANGE, type |-> "direct", durable |-> TRUE]

\* Line 259: queue_declare(queue=RENIEC_QUEUE, durable=True); exclusive and
\* auto_delete are left at False.
RequestQueue ==
  [name |-> RENIEC_QUEUE, durable |-> TRUE, exclusive |-> FALSE, auto_delete |-> FALSE]

\* Line 260: queue_bind(queue=RENIEC_QUEUE, exchange=EXCHANGE, routing_key=RENIEC_ROUTING).
RequestBinding == [queue |-> RENIEC_QUEUE, exchange |-> EXCHANGE, key |-> RENIEC_ROUTING]

\* A load client that declares the exchange without durable=True.
WorkerExchangeTransient == [name |-> RABBIT_EXCHANGE, type |-> "direct", durable |-> FALSE]

\* Load client, line 162: exchange_declare(exchange=RABBIT_EXCHANGE,
\* exchange_type="direct", durable=True).
WorkerExchange == [name |-> RABBIT_EXCHANGE, type |-> "direct", durable |-> TRUE]

\* Load client, line 164: queue_declare(queue="", exclusive=True, auto_delete=True).
ReplyQueue == [name |-> "", durable |-> FALSE, exclusive |-> TRUE, auto_delete |-> TRUE]

\* The broker holds exchanges, queues and bindings by name, the errors it
\* has answered a declaration with, and a counter for the names it generates.
EmptyBroker == [ex |-> {}, qs |-> {}, binds |-> {}, err |-> {}, gen |-> 0]

Refused(b, who, op, code) == [b EXCEPT !.err = @ \cup {[by |-> who, op |-> op, code |-> code]}]

\* exchange.declare: creates the exchange, or finds it with the same type and
\* durability and changes nothing, or refuses with 406 PRECONDITION_FAILED.
ExchangeDeclare(b, who, e) ==
  IF \A x \in b.ex : x.name # e.name THEN [b EXCEPT !.ex = @ \cup {e}]
  ELSE IF e \in b.ex THEN b
  ELSE Refused(b, who, "exchange.declare", 406)

\* What queue.declare was called with, for a queue the broker holds.
Declared(q) ==
  [name |-> q.name, durable |-> q.durable, exclusive |-> q.exclusive, auto_delete |-> q.auto_delete]

\* The name of the queue declared: an empty name asks the broker for a fresh one.
QueueName(b, q) == IF q.name = "" THEN "amq.gen-" \o ToString(b.gen) ELSE q.name

\* queue.declare: creates the queue (under a generated name when none is
\* given), or finds it with the same properties and changes nothing, or
\* refuses: 405 RESOURCE_LOCKED for another connection's exclusive queue, 406
\* PRECONDITION_FAILED for different properties.
QueueDeclare(b, who, q) ==
  IF \A x \in b.qs : x.name # QueueName(b, q)
  THEN [b EXCEPT !.qs = @ \cup {[name |-> QueueName(b, q), durable |-> q.durable,
                                  exclusive |-> q.exclusive, auto_delete |-> q.auto_delete,
                                  owner |-> IF q.exclusive THEN who ELSE "any"]},
                 !.gen = IF q.name = "" THEN @ + 1 ELSE @]
  ELSE IF \E x \in b.qs : x.name = q.name /\ x.exclusive /\ x.owner # who
  THEN Refused(b, who, "queue.declare", 405)
  ELSE IF \E x \in b.qs : Declared(x) = q THEN b
  ELSE Refused(b, who, "queue.declare", 406)

\* queue.bind: adds the binding, once; 404 NOT_FOUND without queue or exchange.
QueueBind(b, who, bind) ==
  IF (\E x \in b.qs : x.name = bind.queue) /\ (\E x \in b.ex : x.name = bind.exchange)
  THEN [b EXCEPT !.binds = @ \cup {bind}]
  ELSE Refused(b, who, "queue.bind", 404)

\* A connection closes: the broker deletes its exclusive queues.
ConnectionClosed(b, who) == [b EXCEPT !.qs = {x \in @ : ~(x.exclusive /\ x.owner = who)}]

\* Lines 258-260, as one run of the three declarations.
DeclareTopology(b, who) ==
  QueueBind(QueueDeclare(ExchangeDeclare(b, who, ResponderExchange), who, RequestQueue),
            who, RequestBinding)

\* What outlives the connections: exchanges, durable queues, bindings.
Durable(b) == [ex |-> b.ex, qs |-> {x \in b.qs : x.durable}, binds |-> b.binds]

\* The connection name of load client w (line 157).
LoadClient(w) == "load-client-" \o ToString(w)

\* ------------------------------------------------------------------ state
VARIABLES
  srv,        \* "new" | "consuming" | "stopped" | "crashed" | "exited"
  closing,    \* ReniecRpcServer._closing
  chOpen,     \* self._ch is open
  connOpen,   \* self._conn is open
  dbOpen,     \* self._db is a handle that was not closed
  dbUp,       \* the storage connection behind self._db answers
  dbGen,      \* connect_db calls so far
  queue,      \* broker: requests ready in RENIEC_QUEUE
  inflight,   \* broker: deliveries handed to the consumer, unacknowledged
  nextTag,    \* next delivery tag of the channel
  nPublished, \* requests published by clients so far
  ackCalls,   \* delivery tag -> basic_ack calls made
  pubLog,     \* set of reply publishes attempted (ReplyPublish records + ok)
  handled,    \* delivery tags on_message was invoked with
  last,       \* what the latest on_message invocation did
  stopLog,    \* one entry per stop() call: the close attempts it made
  wk,         \* worker -> its position in run() / rpc_call and its stop_event
  responses,  \* worker -> Worker.responses, a set of replies keyed by correlation_id
  bankQ,      \* broker: requests published with BANK_ROUTING, not yet answered
  replyQ,     \* broker: worker -> messages in its exclusive callback queue
  obs,        \* worker -> what its latest rpc_call returned, and the requests
              \* it published and the _record calls it made in the current unit
  pk,         \* the load client's seed configuration and the keys pick_dni gave
  mx,         \* the shared metrics dictionary, its lock, and where each
              \* worker thread is inside _record
  pct,        \* a list of latency samples and what percentiles() gave for it
  topo,       \* the broker's topology and where each declaring process is
  hm          \* the consume loop, statement by statement: who handles what

srvVars == <<srv, closing, chOpen, connOpen, dbOpen, dbUp, dbGen, queue, inflight,
             nextTag, nPublished, ackCalls, pubLog, handled, last, stopLog>>

rpcVars == <<wk, responses, bankQ, replyQ, obs>>

auxVars == <<pk, mx, pct, topo, hm>>

vars == <<srvVars, rpcVars, auxVars>>

Tags == 1..(MaxReqs + MaxBurst)

NoLast == [tag |-> 0]

\* A delivery on_message has not been called for.
NoHandling == [pc |-> "none", replyTo |-> FALSE, pubTried |-> FALSE, pubOk |-> FALSE]

\* ------------------------------------------------------------------ requests
KeyValues ==
  { Str(K_FIXED), Num(12345678), Str(K_MASS), Num(10000000),
    Str(K_ABSENT), Num(99999999),
    Str(<<" ", "1", "2", "3", "4", "-", "5", "6", "7", "8", " ">>) }

BadValues ==
  { Str(<<"1", "2", "3", "4", "5", "6", "7">>),
    Str(<<"1", "2", "3", "4", "5", "6", "7", "8", "9">>),
    Str(<<"a", "b", "c">>), Num(1234567) }

NestedValues ==
  { Str(K_FIXED), Num(10000000), Str(K_ABSENT), Str(<<"1", "2", "3", "4", "5", "6", "7">>) }

FalsyValues == { Null, Str(<<>>), Num(0) }

Bodies ==
  { Obj(v, Null, Null) : v \in KeyValues \cup BadValues \cup FalsyValues }
  \cup { Obj(Null, Sub(v, Null), Null) : v \in NestedValues }
  \cup { Obj(Null, Null, Sub(v, Null)) : v \in NestedValues }
  \cup { Obj(Null, Null, Sub(Null, v)) : v \in {Str(K_FIXED), Str(<<"a", "b", "c">>)} }
  \cup { Obj(Str(<<"a", "b", "c">>), Sub(Str(K_FIXED), Null), Null),
         Obj(Str(<<>>), Sub(Str(K_MASS), Null), Null),
         Obj(Num(0), Null, Sub(Str(<<>>), Str(K_FIXED))),
         Obj(Null, NonDict, Sub(Str(K_FIXED), Null)),
         Obj(Null, Null, NonDict),
         BadBody, ArrBody }

Envelopes ==
  { [corr |-> c, reply_to |-> r] : c \in {None, "c1"}, r \in {None, "", "amq.gen-1"} }

\* Every envelope with a body that carries a stored key, and the usual
\* envelope with a body that carries none.
Requests ==
  { [corr |-> e.corr, reply_to |-> e.reply_to, body |-> Obj(Str(K_FIXED), Null, Null)] :
      e \in Envelopes }
  \cup { [corr |-> "c1", reply_to |-> "amq.gen-1", body |-> BadBody] }

\* Every body, under the usual envelope.
BodyRequests ==
  { [corr |-> "c1", reply_to |-> "amq.gen-1", body |-> b] : b \in Bodies }

Workers == 0..(WORKERS - 1)

\* Lines 81-82: the values rand_id("corr", 10) can return.
Token(n) == "corr-" \o ToString(n)
RandId == {Token(n) : n \in 1..MaxTokens}

\* Line 164-165: the broker-named exclusive queue of worker w.
CallbackQueue(w) == "amq.gen-w" \o ToString(w)

NoReturn == [ok |-> FALSE, dt |-> "none", resp |-> "none"]

InitRpc ==
  /\ wk = [w \in Workers |->
            [pc |-> "top", i |-> 0, phase |-> "none", j |-> 0, cid |-> None,
             stop |-> FALSE, open |-> TRUE]]
  /\ responses = [w \in Workers |-> {}]
  /\ bankQ = <<>>
  /\ replyQ = [w \in Workers |-> <<>>]
  /\ obs = [w \in Workers |-> [ret |-> NoReturn, issued |-> <<>>, recs |-> <<>>]]

\* The operation kinds _record is followed with.
RecordKinds == {"Register", "Deposit"}

\* Lines 333-339: the metrics dictionary main() creates; by_kind is a
\* defaultdict, a kind not yet recorded reads as count 0, ok 0, no sample.
NewMetrics ==
  [total |-> 0, fail |-> 0,
   by_kind |-> [k \in RecordKinds |-> [count |-> 0, ok |-> 0, lat |-> <<>>]]]

IdleThread == [pc |-> "idle", kind |-> "none", ok |-> FALSE, tmp |-> 0, calls |-> 0]

\* Nothing is configured or computed yet.
InitAux ==
  /\ pk = [seed_count |-> 0, use_fixed |-> FALSE, picked |-> {}]
  /\ mx = [m |-> NewMetrics, lock |-> "free", th |-> [t \in Workers |-> IdleThread]]
  /\ pct = [nums |-> <<>>, done |-> FALSE, out |-> NoPercentiles]
  /\ topo = [b |-> EmptyBroker, srvPc |-> "new", srvRuns |-> 0,
             wPc |-> [w \in Workers |-> "new"], wRuns |-> [w \in Workers |-> 0]]
  /\ hm = [ready |-> 0, sent |-> 0, unacked |-> <<>>, next |-> 1, loop |-> "consuming",
           run |-> [t \in Tags |-> NoHandling], log |-> <<>>]

Init ==
  /\ InitRpc
  /\ InitAux
  /\ srv = "new"
  /\ closing = FALSE
  /\ chOpen = FALSE
  /\ connOpen = FALSE
  /\ dbOpen = FALSE
  /\ dbUp = FALSE
  /\ dbGen = 0
  /\ queue = <<>>
  /\ inflight = <<>>
  /\ nextTag = 1
  /\ nPublished = 0
  /\ ackCalls = [t \in Tags |-> 0]
  /\ pubLog = {}
  /\ handled = {}
  /\ last = NoLast
  /\ stopLog = <<>>

\* ------------------------------------------------------------------ stop()
\* Whether each close() of one stop() call returns (TRUE) or raises.
CloseOutcomes == [ch : BOOLEAN, conn : BOOLEAN, db : BOOLEAN]
AllClose == [ch |-> TRUE, conn |-> TRUE, db |-> TRUE]

\* Lines 344-363.  Returns the new flags; a second call changes nothing.  A
\* close() that raised leaves its resource as it was.
StopFlags(wasClosing, ch, conn, db, ok) ==
  IF wasClosing THEN [closing |-> TRUE, ch |-> ch, conn |-> conn, db |-> db]
  ELSE [closing |-> TRUE, ch |-> ch /\ ~ok.ch, conn |-> conn /\ ~ok.conn, db |-> db /\ ~ok.db]

\* One try block around the three close() calls: the first that raises ends them.
StopClosesUntilFailure(wasClosing, ch, conn, db, ok) ==
  IF wasClosing THEN <<>>
  ELSE (IF ch THEN <<[res |-> "ch", ok |-> ok.ch]>> ELSE <<>>)
       \o (IF conn /\ (ch => ok.ch) THEN <<[res |-> "conn", ok |-> ok.conn]>> ELSE <<>>)
       \o (IF db /\ (ch => ok.ch) /\ (conn => ok.conn)
           THEN <<[res |-> "db", ok |-> ok.db]>> ELSE <<>>)

\* Lines 344-363: the close() calls one stop() call makes, in order, each in
\* a try block of its own: channel and connection when open, the storage
\* handle when set.
StopCloses(wasClosing, ch, conn, db, ok) ==
  IF wasClosing THEN <<>>
  ELSE (IF ch THEN <<[res |-> "ch", ok |-> ok.ch]>> ELSE <<>>)
       \o (IF conn THEN <<[res |-> "conn", ok |-> ok.conn]>> ELSE <<>>)
       \o (IF db THEN <<[res |-> "db", ok |-> ok.db]>> ELSE <<>>)

\* ------------------------------------------------------------------ start()
\* Lines 264-266: connect_db then connect_rabbit, outside any try block: a
\* failure of either leaves start() with the exception.
Start(dbOk, rabbitOk) ==
  /\ srv = "new"
  /\ srv' = IF dbOk /\ rabbitOk THEN "consuming" ELSE "crashed"
  /\ dbOpen' = dbOk
  /\ dbUp' = dbOk
  /\ dbGen' = IF dbOk THEN 1 ELSE 0
  /\ chOpen' = (dbOk /\ rabbitOk)
  /\ connOpen' = (dbOk /\ rabbitOk)
  /\ UNCHANGED <<rpcVars, auxVars, closing, queue, inflight, nextTag, nPublished, ackCalls,
                 pubLog, handled, last, stopLog>>

\* A client publishes a request to the exchange; the binding routes it to the
\* durable request queue (which exists whether or not the responder runs).
ClientPublish(req) ==
  /\ nPublished < MaxReqs
  /\ nPublished' = nPublished + 1
  /\ queue' = Append(queue, req)
  /\ UNCHANGED <<rpcVars, auxVars, srv, closing, chOpen, connOpen, dbOpen, dbUp, dbGen, inflight,
                 nextTag, ackCalls, pubLog, handled, last, stopLog>>

\* A channel on which basic_qos was never called.
PrefetchUnset(unacked) == TRUE

\* Line 255: basic_qos(prefetch_count=PREFETCH) on the consuming channel.
PrefetchAllows(unacked) == unacked < PREFETCH

\* Lines 255, 333: basic_qos(prefetch_count=PREFETCH) and basic_consume with
\* auto_ack=False: the broker hands over the next ready message while fewer
\* than PREFETCH deliveries are unacknowledged.
Deliver ==
  /\ srv = "consuming"
  /\ queue # <<>>
  /\ PrefetchAllows(Len(inflight))
  /\ inflight' = Append(inflight, [tag |-> nextTag, req |-> Head(queue)])
  /\ queue' = Tail(queue)
  /\ nextTag' = nextTag + 1
  /\ UNCHANGED <<rpcVars, auxVars, srv, closing, chOpen, connOpen, dbOpen, dbUp, dbGen, nPublished,
                 ackCalls, pubLog, handled, last, stopLog>>

\* The storage connection is severed while the responder is idle.
SeverDb ==
  /\ srv = "consuming"
  /\ dbUp
  /\ dbUp' = FALSE
  /\ UNCHANGED <<rpcVars, auxVars, srv, closing, chOpen, connOpen, dbOpen, dbGen, queue, inflight,
                 nextTag, nPublished, ackCalls, pubLog, handled, last, stopLog>>

\* ------------------------------------------------------------------ on_message
\* Lines 336-342: what start() does with an exception that leaves the consume
\* loop.  pika's errors are AMQPError and reach stop(); a storage error raised
\* by connect_db is not, and leaves start() uncaught.
AfterRaise(raised) ==
  IF raised = "none" THEN "consuming"
  ELSE IF raised \in {"publish", "ack"} THEN "stopped"
  ELSE "crashed"

\* Lines 322-331, reached with what lines 268-320 did.
HandleProbe(d, db0, dbAtLookup, dni, built, pubTried, pubOk, acked, ackOk, probed, dbAtProbe, reconnOk) ==
  [tag |-> d.tag, req |-> d.req, dni |-> dni,
   dbAtStart |-> db0, dbAtLookup |-> dbAtLookup,
   lookup |-> LookupCalled(dni),
   lookupRaised |-> LookupCalled(dni) /\ ~dbAtLookup,
   resp |-> built.resp,
   pubTried |-> pubTried, pubOk |-> pubTried /\ pubOk,
   acked |-> acked, ackOk |-> acked /\ ackOk,
   probed |-> probed, probeFailed |-> probed /\ ~dbAtProbe,
   reconnect |-> ReconnectOnProbeFailure(probed /\ ~dbAtProbe),
   reconnected |-> ReconnectOnProbeFailure(probed /\ ~dbAtProbe) /\ reconnOk,
   dbAfter |-> IF ReconnectOnProbeFailure(probed /\ ~dbAtProbe) THEN reconnOk ELSE dbAtProbe,
   raised |-> IF built.escaped THEN "lookup"
              ELSE IF acked /\ ~ackOk THEN "ack"
              ELSE IF pubTried /\ ~pubOk THEN "publish"
              ELSE IF ReconnectOnProbeFailure(probed /\ ~dbAtProbe) /\ ~reconnOk THEN "reconnect"
              ELSE "none"]

\* Lines 308-320, reached with the response built.
HandleReply(d, db0, dbAtLookup, dni, built, pubTried, severLate, pubOk, ackOk, reconnOk) ==
  HandleProbe(d, db0, dbAtLookup, dni, built, pubTried, pubOk,
              ~built.escaped /\ AckCalled(pubTried, pubOk), ackOk,
              ~built.escaped /\ ProbeRuns(pubTried, pubOk,
                                          AckCalled(pubTried, pubOk) /\ ackOk),
              dbAtLookup /\ ~severLate, reconnOk)

\* Lines 292-306, reached with the key extracted.
HandleLookup(d, db0, dbAtLookup, dni, built, severLate, pubOk, ackOk, reconnOk) ==
  HandleReply(d, db0, dbAtLookup, dni, built,
              ~built.escaped /\ HasReplyTo(d.req.reply_to),
              severLate, pubOk, ackOk, reconnOk)

HandleKey(d, db0, dbAtLookup, dni, severLate, pubOk, ackOk, reconnOk) ==
  HandleLookup(d, db0, dbAtLookup, dni, BuildResponse(dni, dbAtLookup),
               severLate, pubOk, ackOk, reconnOk)

\* Lines 268-331 for the delivery d.  Inputs: the storage connection is severed
\* before the lookup (severEarly) or between lookup and probe (severLate);
\* basic_publish, basic_ack and the reconnect's open_db succeed or raise.
\* The result records what the invocation did.
Handle(d, db0, severEarly, severLate, pubOk, ackOk, reconnOk) ==
  HandleKey(d, db0, db0 /\ ~severEarly, ExtractDni(d.req.body),
            severLate, pubOk, ackOk, reconnOk)

\* A channel on which basic_ack settles nothing.
UnackedKeepsAll(h, infl) == infl

\* The channel's unacknowledged deliveries once on_message has run.
Unacked(h, infl) == IF h.ackOk THEN Tail(infl) ELSE infl

\* The responder's flags after on_message: stop() ran, or only the reconnect.
FlagsAfter(h, wasClosing, ch, conn, db, ok) ==
  IF AfterRaise(h.raised) = "stopped"
  THEN StopFlags(wasClosing, ch, conn, db /\ ~h.reconnect, ok)
  ELSE [closing |-> wasClosing, ch |-> ch, conn |-> conn,
        db |-> IF h.reconnect THEN h.reconnected ELSE db]

OnMessage(severEarly, severLate, pubOk, ackOk, reconnOk, closeOk) ==
  /\ srv = "consuming"
  /\ inflight # <<>>
  /\ last' = Handle(Head(inflight), dbUp, severEarly, severLate, pubOk, ackOk, reconnOk)
  \* an input that the run does not consult is fixed, not enumerated
  /\ severEarly => dbUp
  /\ severLate => last'.dbAtLookup /\ last'.probed
  /\ ~pubOk => last'.pubTried
  /\ ~reconnOk => last'.reconnect
  /\ closeOk # AllClose => AfterRaise(last'.raised) = "stopped"
  /\ handled' = handled \cup {last'.tag}
  /\ srv' = AfterRaise(last'.raised)
  /\ closing' = FlagsAfter(last', closing, chOpen, connOpen, dbOpen, closeOk).closing
  /\ chOpen' = FlagsAfter(last', closing, chOpen, connOpen, dbOpen, closeOk).ch
  /\ connOpen' = FlagsAfter(last', closing, chOpen, connOpen, dbOpen, closeOk).conn
  /\ dbOpen' = FlagsAfter(last', closing, chOpen, connOpen, dbOpen, closeOk).db
  /\ stopLog' = IF AfterRaise(last'.raised) = "stopped"
                 THEN Append(stopLog, StopCloses(closing, chOpen, connOpen, dbOpen, closeOk))
                 ELSE stopLog
  /\ dbUp' = (last'.dbAfter /\ srv' = "consuming")
  /\ dbGen' = IF last'.reconnected THEN dbGen + 1 ELSE dbGen
  /\ ackCalls' = IF last'.acked THEN [ackCalls EXCEPT ![last'.tag] = @ + 1] ELSE ackCalls
  /\ pubLog' = IF last'.pubTried
               THEN pubLog \cup {[pub |-> ReplyPublish(last'.tag, last'.req.corr,
                                                       last'.req.reply_to, last'.resp),
                                  ok |-> last'.pubOk]}
               ELSE pubLog
  \* a closed channel gives its unacknowledged deliveries back to the queue
  /\ inflight' = IF srv' = "consuming" THEN Unacked(last', inflight) ELSE <<>>
  /\ queue' = IF srv' = "consuming" THEN queue
              ELSE [i \in 1..Len(Unacked(last', inflight)) |->
                      Unacked(last', inflight)[i].req] \o queue
  /\ UNCHANGED <<rpcVars, auxVars, nextTag, nPublished>>

\* Lines 369-371: SIGINT / SIGTERM run stop() and leave the process with
\* sys.exit(0).  The signal comes while the responder consumes, or after
\* stop() has run for an AMQP error and before the process is gone.
Signal(closeOk) ==
  /\ srv \in {"consuming", "stopped"}
  /\ closeOk # AllClose => ~closing
  /\ LET f == StopFlags(closing, chOpen, connOpen, dbOpen, closeOk)
     IN /\ closing' = f.closing
        /\ chOpen' = f.ch
        /\ connOpen' = f.conn
        /\ dbOpen' = f.db
  /\ stopLog' = Append(stopLog, StopCloses(closing, chOpen, connOpen, dbOpen, closeOk))
  /\ srv' = "exited"
  /\ dbUp' = FALSE
  /\ inflight' = <<>>
  /\ queue' = [i \in 1..Len(inflight) |-> inflight[i].req] \o queue
  /\ UNCHANGED <<rpcVars, auxVars, dbGen, nextTag, nPublished, ackCalls, pubLog, handled, last>>

Next ==
  \/ \E dbOk, rabbitOk \in BOOLEAN : Start(dbOk, rabbitOk)
  \/ \E req \in Requests : ClientPublish(req)
  \/ Deliver
  \/ SeverDb
  \/ \E severEarly, severLate, pubOk, ackOk, reconnOk \in BOOLEAN :
        \E closeOk \in CloseOutcomes :
          OnMessage(severEarly, severLate, pubOk, ackOk, reconnOk, closeOk)
  \/ \E closeOk \in CloseOutcomes : Signal(closeOk)

Spec == Init /\ [][Next]_vars

\* One request per run, with every body shape.
PublishBody(req) == nPublished = 0 /\ ClientPublish(req)

NextBodies ==
  \/ \E dbOk, rabbitOk \in BOOLEAN : Start(dbOk, rabbitOk)
  \/ \E req \in BodyRequests : PublishBody(req)
  \/ Deliver
  \/ SeverDb
  \/ \E severEarly, severLate, pubOk, ackOk, reconnOk \in BOOLEAN :
        \E closeOk \in CloseOutcomes :
          OnMessage(severEarly, severLate, pubOk, ackOk, reconnOk, closeOk)

SpecBodies == Init /\ [][NextBodies]_vars

\* ------------------------------------------------------------------ backlog
\* A client publishes requests faster than the responder answers them.
BurstRequest == [corr |-> "c1", reply_to |-> "amq.gen-1", body |-> Obj(Str(K_FIXED), Null, Null)]

Burst ==
  /\ nPublished < MaxBurst
  /\ nPublished' = nPublished + 1
  /\ queue' = Append(queue, BurstRequest)
  /\ UNCHANGED <<rpcVars, auxVars, srv, closing, chOpen, connOpen, dbOpen, dbUp, dbGen, inflight,
                 nextTag, ackCalls, pubLog, handled, last, stopLog>>

NextBacklog ==
  \/ \E dbOk, rabbitOk \in BOOLEAN : Start(dbOk, rabbitOk)
  \/ Burst
  \/ Deliver
  \/ SeverDb
  \/ \E severLate, pubOk, ackOk, reconnOk \in BOOLEAN :
        OnMessage(FALSE, severLate, pubOk, ackOk, reconnOk, AllClose)

SpecBacklog == Init /\ [][NextBacklog]_vars

\* ------------------------------------------------------------------ load client
\* The call a worker is in: worker, client unit, operation kind, index in kind.
Call(w, i, kind, j) == [from |-> w, unit |-> i, kind |-> kind, j |-> j]

\* Lines 180-192: the request of one rpc_call, and the call that issued it.
Request(cid, call) ==
  [corr |-> cid, reply_to |-> CallbackQueue(call.from), kind |-> call.kind, call |-> call]

\* Lines 170-174, on_response: responses[cid] = body, whatever cid is.
StoreResponse(table, m) ==
  {e \in table : e.correlation_id # m.correlation_id} \cup {m}

\* Replies the responder of BANK_ROUTING may send: success with the client and
\* account identifiers, success without them, a failure, bytes that are no JSON.
ReplyBodies(kind) ==
  IF kind = "Register" THEN {"ok_ids", "ok_noids", "not_ok", "garbage"}
  ELSE {"ok_noids", "not_ok"}

\* Lines 202-206: ok of the decoded reply; undecodable bytes give ok False.
ReplyOk(body) == body \in {"ok_ids", "ok_noids"}

\* Lines 220-223: the reply carries both identifiers.
ReplyHasIds(body) == body = "ok_ids"

Unit == [kind |-> "unit", j |-> 0]

LoansFrom0 == IF LOANS_PER_CLIENT > 0 THEN [kind |-> "CreateLoan", j |-> 0] ELSE Unit

DepositsFrom0 == IF TX_PER_CLIENT > 0 THEN [kind |-> "Deposit", j |-> 0] ELSE LoansFrom0

AfterCallNoSkip(phase, j, ok, ids) ==
  IF phase = "Register" THEN DepositsFrom0
  ELSE IF phase = "Deposit"
  THEN IF j + 1 < TX_PER_CLIENT THEN [kind |-> "Deposit", j |-> j + 1] ELSE LoansFrom0
  ELSE IF j + 1 < LOANS_PER_CLIENT THEN [kind |-> "CreateLoan", j |-> j + 1] ELSE Unit

\* Lines 215-235: what run() does after the call of kind phase (index j)
\* returned: the next call of the unit, or "unit" for the next client unit.
AfterCall(phase, j, ok, ids) ==
  IF phase = "Register"
  THEN IF ok /\ ids THEN DepositsFrom0 ELSE Unit
  ELSE IF phase = "Deposit"
  THEN IF j + 1 < TX_PER_CLIENT THEN [kind |-> "Deposit", j |-> j + 1] ELSE LoansFrom0
  ELSE IF j + 1 < LOANS_PER_CLIENT THEN [kind |-> "CreateLoan", j |-> j + 1] ELSE Unit

\* Line 200: the triple rpc_call returns when it gives up on the stop event.
FailureTriple == [ok |-> FALSE, dt |-> "0.0", resp |-> "{}"]

\* Lines 201-207: the triple rpc_call returns for the reply body it popped;
\* bytes that are no JSON decode to the decode_error dictionary.
Returned(body) ==
  [ok |-> ReplyOk(body), dt |-> "elapsed",
   resp |-> IF body = "garbage" THEN "decode_error" ELSE body]

\* Lines 216-235: the _record calls run() makes once the call of kind phase
\* returned r: one for the call, and RegisterParse when a successful Register
\* reply lacks an identifier.
RecordsOf(phase, r) ==
  IF phase = "Register" /\ r.ok /\ ~ReplyHasIds(r.resp)
  THEN <<[kind |-> phase, ok |-> r.ok, dt |-> r.dt],
         [kind |-> "RegisterParse", ok |-> FALSE, dt |-> "0.0"]>>
  ELSE <<[kind |-> phase, ok |-> r.ok, dt |-> r.dt]>>

StopNeverSeen(w) == FALSE

\* Line 199: the stop event is seen set.
StopSeen(w) == wk[w].stop

\* Lines 195-197: the replies stored under the token of the call in progress.
Found(w) == {e \in responses[w] : e.correlation_id = wk[w].cid}

\* Lines 209-215 and 237-240: the head of the for loop.  With the stop event
\* set or every unit done, run() closes channel and connection (the exclusive
\* auto-delete callback queue goes with them); else it issues the Register
\* call: rpc_call draws cid and publishes.
WorkerLoop(w, cid) ==
  /\ wk[w].pc = "top"
  /\ IF wk[w].stop \/ wk[w].i = CLIENTS_PER_WORKER
     THEN /\ cid = Token(1)
          /\ wk' = [wk EXCEPT ![w].pc = "done", ![w].open = FALSE]
          /\ replyQ' = [replyQ EXCEPT ![w] = <<>>]
          /\ bankQ' = bankQ
          /\ obs' = obs
     ELSE /\ wk' = [wk EXCEPT ![w].pc = "wait", ![w].phase = "Register", ![w].j = 0,
                               ![w].cid = cid]
          /\ bankQ' = Append(bankQ, Request(cid, Call(w, wk[w].i, "Register", 0)))
          /\ replyQ' = replyQ
          /\ obs' = [obs EXCEPT ![w].issued = <<"Register">>, ![w].recs = <<>>]
  /\ UNCHANGED <<responses, srvVars, auxVars>>

\* Line 194 with lines 170-174: process_data_events hands the next message of
\* the callback queue to on_response, which stores and acknowledges it.
OnResponse(w) ==
  /\ wk[w].pc = "wait"
  /\ replyQ[w] # <<>>
  /\ responses' = [responses EXCEPT ![w] = StoreResponse(@, Head(replyQ[w]))]
  /\ replyQ' = [replyQ EXCEPT ![w] = Tail(@)]
  /\ UNCHANGED <<wk, bankQ, obs, srvVars, auxVars>>

\* The worker's step once rpc_call returned ok / ids: the next call of the unit
\* is published under the token cid, or the loop goes to its head.
Continue(w, ok, ids, cid) ==
  IF AfterCall(wk[w].phase, wk[w].j, ok, ids).kind = "unit"
  THEN /\ cid = Token(1)
       /\ wk' = [wk EXCEPT ![w].pc = "top", ![w].i = @ + 1, ![w].phase = "none",
                            ![w].j = 0, ![w].cid = None]
       /\ bankQ' = bankQ
  ELSE /\ wk' = [wk EXCEPT ![w].phase = AfterCall(wk[w].phase, wk[w].j, ok, ids).kind,
                            ![w].j = AfterCall(wk[w].phase, wk[w].j, ok, ids).j,
                            ![w].cid = cid]
       /\ bankQ' = Append(bankQ, Request(cid, Call(w, wk[w].i,
                                                   AfterCall(wk[w].phase, wk[w].j, ok, ids).kind,
                                                   AfterCall(wk[w].phase, wk[w].j, ok, ids).j)))

\* What worker w has observed once its call returned r: the triple, the
\* request published next (if the unit goes on), the _record calls made.
Observed(w, r) ==
  [ret |-> r,
   issued |-> IF AfterCall(wk[w].phase, wk[w].j, r.ok, ReplyHasIds(r.resp)).kind = "unit"
              THEN obs[w].issued
              ELSE Append(obs[w].issued,
                          AfterCall(wk[w].phase, wk[w].j, r.ok, ReplyHasIds(r.resp)).kind),
   recs |-> obs[w].recs \o RecordsOf(wk[w].phase, r)]

\* Lines 195-207: the reply of the call in progress is there: pop it, return.
RpcReturn(w, cid) ==
  /\ wk[w].pc = "wait"
  /\ Found(w) # {}
  /\ responses' = [responses EXCEPT ![w] = @ \ Found(w)]
  /\ Continue(w, ReplyOk((CHOOSE e \in Found(w) : TRUE).body),
              ReplyHasIds((CHOOSE e \in Found(w) : TRUE).body), cid)
  /\ obs' = [obs EXCEPT ![w] = Observed(w, Returned((CHOOSE e \in Found(w) : TRUE).body))]
  /\ UNCHANGED <<replyQ, srvVars, auxVars>>

\* Lines 199-200: no reply yet and the stop event is set: return (False, 0.0, {}).
RpcAbandon(w, cid) ==
  /\ wk[w].pc = "wait"
  /\ Found(w) = {}
  /\ StopSeen(w)
  /\ Continue(w, FailureTriple.ok, FALSE, cid)
  /\ obs' = [obs EXCEPT ![w] = Observed(w, FailureTriple)]
  /\ UNCHANGED <<responses, replyQ, srvVars, auxVars>>

\* Lines 252-253: Worker.stop().
StopWorker(w) ==
  /\ ~wk[w].stop
  /\ wk[w].pc # "done"
  /\ wk' = [wk EXCEPT ![w].stop = TRUE]
  /\ UNCHANGED <<responses, bankQ, replyQ, obs, srvVars, auxVars>>

\* The responder of the requests (the bank server, not part of this
\* repository) answers the oldest request the way on_message answers: to the
\* default exchange, routing key reply_to, the request's correlation_id.  The
\* broker drops a message routed to a queue that no longer exists.
BankRespond(body) ==
  /\ bankQ # <<>>
  /\ body \in ReplyBodies(Head(bankQ).kind)
  /\ bankQ' = Tail(bankQ)
  /\ replyQ' = [w \in Workers |->
                  IF HasReplyTo(Head(bankQ).reply_to)
                     /\ CallbackQueue(w) = Head(bankQ).reply_to /\ wk[w].open
                  THEN Append(replyQ[w],
                              ReplyPublish(Head(bankQ).call, Head(bankQ).corr,
                                           Head(bankQ).reply_to, body))
                  ELSE replyQ[w]]
  /\ UNCHANGED <<wk, responses, obs, srvVars, auxVars>>

NextRpc ==
  \/ \E w \in Workers, cid \in RandId : WorkerLoop(w, cid)
  \/ \E w \in Workers : OnResponse(w)
  \/ \E w \in Workers, cid \in RandId : RpcReturn(w, cid)
  \/ \E w \in Workers, cid \in RandId : RpcAbandon(w, cid)
  \/ \E w \in Workers : StopWorker(w)
  \/ \E body \in {"ok_ids", "ok_noids", "not_ok", "garbage"} : BankRespond(body)

SpecRpc == Init /\ [][NextRpc]_vars

\* A worker is a thread of its own: its loop (lines 193-200) keeps polling
\* every 0.05 s, so a step of the worker that stays possible is taken.  The
\* responder of the requests and whoever calls Worker.stop() owe nothing.
WorkerStep(w) ==
  \/ \E cid \in RandId : WorkerLoop(w, cid)
  \/ OnResponse(w)
  \/ \E cid \in RandId : RpcReturn(w, cid)
  \/ \E cid \in RandId : RpcAbandon(w, cid)

\* One worker followed alone, with the responder of its requests: what a
\* worker does depends on its own stop event and on the replies to its own
\* requests only, whenever they come.
NextWorker ==
  \/ \E cid \in RandId : WorkerLoop(0, cid)
  \/ OnResponse(0)
  \/ \E cid \in RandId : RpcReturn(0, cid)
  \/ \E cid \in RandId : RpcAbandon(0, cid)
  \/ StopWorker(0)
  \/ \E body \in {"ok_ids", "ok_noids", "not_ok", "garbage"} : BankRespond(body)

SpecWorker == Init /\ [][NextWorker]_vars /\ WF_vars(WorkerStep(0))

\* ------------------------------------------------------------------ claims
Handled == last.tag # 0

PubsOf(tag) == {p \in pubLog : p.pub.tag = tag}

\* C1: every delivery handed to on_message has basic_ack called for its tag
\* exactly once, whatever the handling did (and no other tag is acknowledged).
C1_AckExactlyOnce ==
  \A t \in Tags : ackCalls[t] = IF t \in handled THEN 1 ELSE 0

C1_Witness ==
  /\ Handled
  /\ last.pubTried /\ ~last.pubOk
  /\ ackCalls[last.tag] = 1

\* C2: a delivery with a non-empty reply_to has exactly one reply publish, to
\* exchange "" with routing key reply_to and the request's correlation_id
\* (None when the request carried none).
C2_ReplyEchoesCorrelation ==
  (Handled /\ last.req.reply_to \notin {None, ""}) =>
     /\ Cardinality(PubsOf(last.tag)) = 1
     /\ \A p \in PubsOf(last.tag) :
          /\ p.pub.exchange = ""
          /\ p.pub.routing_key = last.req.reply_to
          /\ p.pub.correlation_id = last.req.corr

C2_Witness ==
  /\ Handled
  /\ last.req.reply_to = "amq.gen-1"
  /\ last.req.corr = None
  /\ \E p \in PubsOf(last.tag) : p.ok /\ p.pub.correlation_id = None

\* C4: every on_message invocation, whatever failed in it, leaves the
\* responder consuming.
C4_FailuresContained ==
  [][last'.tag # last.tag => srv' = "consuming"]_vars

\* C5: a delivery whose reply_to is absent or empty has no publish at all and
\* basic_ack called once.
C5_NoReplyToNoPublish ==
  (Handled /\ last.req.reply_to \in {None, ""}) =>
     /\ PubsOf(last.tag) = {}
     /\ ackCalls[last.tag] = 1

C5_Witness ==
  /\ Handled
  /\ last.req.reply_to = ""
  /\ ackCalls[last.tag] = 1

\* C7: when get_person raises, the exception does not leave on_message: the
\* reply is {ok:false, data:null, error:{message}}, it is published to a
\* present reply_to with the request's correlation_id, and basic_ack is called.
C7_LookupFailureReplied ==
  (Handled /\ last.lookupRaised) =>
     /\ last.raised # "lookup"
     /\ last.resp = [ok |-> FALSE, data |-> Null, error |-> [message |-> "db"]]
     /\ last.req.reply_to \notin {None, ""} =>
           \E p \in PubsOf(last.tag) :
              /\ p.pub.body = last.resp
              /\ p.pub.routing_key = last.req.reply_to
              /\ p.pub.correlation_id = last.req.corr
     /\ ackCalls[last.tag] = 1

C7_Witness ==
  /\ Handled
  /\ last.lookupRaised
  /\ \E p \in PubsOf(last.tag) : p.ok /\ p.pub.body.ok = FALSE
  /\ srv = "consuming"

StrippedKey(body) ==
  LET r == RawDni(body)
  IN IF r.raised \/ r.v = Null THEN <<>> ELSE SelectSeq(PyStr(r.v), IsDigit)

ShapesOf(v) == { Obj(v, Null, Null), Obj(Null, Sub(v, Null), Null), Obj(Null, Null, Sub(v, Null)) }

\* A valid key as a string and as a number, with the reply the store calls for.
KeyCases ==
  { [vals |-> {Str(K_FIXED), Num(12345678)},
     data |-> [valid |-> TRUE, dni |-> K_FIXED, nombres |-> "LUIS ALBERTO",
               apellidoPat |-> "TORRES", apellidoMat |-> "MENDOZA",
               fecha_naci |-> "1992-11-05", sexo |-> "M",
               direccion |-> "Sacsayhuaman 789", estado_civil |-> "Casado",
               lugar_nacimiento |-> "Lima"]],
    [vals |-> {Str(K_MASS), Num(10000000)},
     data |-> [valid |-> TRUE, dni |-> K_MASS, nombres |-> "NOMBRE 0",
               apellidoPat |-> "APELLIDO0", apellidoMat |-> "MATERNO0",
               fecha_naci |-> "1990-01-01", sexo |-> "M", direccion |-> "CALLE 0"]],
    [vals |-> {Str(K_ABSENT), Num(99999999)},
     data |-> [valid |-> FALSE, dni |-> K_ABSENT]] }

\* C9: a valid 8-digit key, as a string or a number, in any of the shapes
\* {dni}, {data:{dni}}, {payload:{dni}}: when the lookup returns, the reply is
\* {ok:true, data:{valid:true, ...stored fields}} for a stored key and
\* {ok:true, data:{valid:false, dni:key}} for a key that is not stored.
C9_ValidKeyLookedUp ==
  \A c \in KeyCases : \A v \in c.vals :
     (Handled /\ last.req.body \in ShapesOf(v) /\ last.dbAtLookup) =>
        /\ last.lookup
        /\ last.resp = [ok |-> TRUE, data |-> c.data]
        /\ \A p \in PubsOf(last.tag) : p.pub.body = last.resp

C9_Witness ==
  /\ Handled
  /\ last.req.body = Obj(Null, Null, Sub(Num(10000000), Null))
  /\ last.dbAtLookup
  /\ \E p \in PubsOf(last.tag) : p.ok /\ p.pub.body.ok /\ p.pub.body.data.dni = K_MASS

\* ------------------------------------------------------------------ key selection
\* Lines 70-72: RENIEC_SEED_COUNT and USE_FIXED_DNIS are read once.
ReadSeedConfig(seed_count, use_fixed) ==
  /\ pk.seed_count = 0
  /\ pk' = [pk EXCEPT !.seed_count = seed_count, !.use_fixed = use_fixed]
  /\ UNCHANGED <<srvVars, rpcVars, mx, pct, topo, hm>>

\* Line 214: worker wid selects the key of its unit i.
PickDni(wid, i) ==
  /\ pk.seed_count > 0
  /\ pk' = [pk EXCEPT !.picked = @ \cup
               {[wid |-> wid, i |-> i,
                 fixed |-> FromFixedList(wid, i, pk.use_fixed),
                 dni |-> pick_dni(wid, i, pk.seed_count, pk.use_fixed)]}]
  /\ UNCHANGED <<srvVars, rpcVars, mx, pct, topo, hm>>

NextPick ==
  \/ \E seed_count \in 1..MaxSeedCount, use_fixed \in BOOLEAN :
        ReadSeedConfig(seed_count, use_fixed)
  \/ \E wid \in Workers, i \in 0..(CLIENTS_PER_WORKER - 1) : PickDni(wid, i)

SpecPick == Init /\ [][NextPick]_vars

\* ------------------------------------------------------------------ _record
\* Lines 242-250, one statement at a time.  x += 1 on a dictionary entry is a
\* read followed by a write; list.append is one step.
\*   "s245" total   "s246" by_kind[kind].count   "s247" by_kind[kind].ok
\*   "s248" lat.append   "s250" fail   "rel" leaving the with block
LockAlwaysFree(lock) == TRUE

\* Line 244, threading.Lock: the with statement enters when nobody holds it.
LockFree(lock) == lock = "free"

\* The value the statement at pc reads.
Read(m, pc, kind) ==
  IF pc = "s245" THEN m.total
  ELSE IF pc = "s246" THEN m.by_kind[kind].count
  ELSE IF pc = "s247" THEN m.by_kind[kind].ok
  ELSE m.fail

\* The dictionary after the statement at pc has written v.
Written(m, pc, kind, v) ==
  IF pc = "s245" THEN [m EXCEPT !.total = v]
  ELSE IF pc = "s246" THEN [m EXCEPT !.by_kind[kind].count = v]
  ELSE IF pc = "s247" THEN [m EXCEPT !.by_kind[kind].ok = v]
  ELSE [m EXCEPT !.fail = v]

\* What the statement at pc adds: 1, or int(ok) at line 247.
Increment(pc, ok) == IF pc = "s247" /\ ~ok THEN 0 ELSE 1

\* The statement that follows the one at pc.
AfterStatement(pc, ok) ==
  IF pc = "s245" THEN "s246"
  ELSE IF pc = "s246" THEN "s247"
  ELSE IF pc = "s247" THEN "s248"
  ELSE IF pc = "s248" THEN (IF ok THEN "rel" ELSE "s250")
  ELSE "rel"

\* Line 244: thread t calls _record(kind, ok, dt) and enters the with block.
RecordEnter(t, kind, ok) ==
  /\ mx.th[t].pc = "idle"
  /\ mx.th[t].calls < MaxRecords
  /\ LockFree(mx.lock)
  /\ mx' = [mx EXCEPT !.lock = "held", !.th[t].pc = "s245",
                       !.th[t].kind = kind, !.th[t].ok = ok]
  /\ UNCHANGED <<srvVars, rpcVars, pk, pct, topo, hm>>

\* The read half of lines 245, 246, 247, 250.
RecordLoad(t) ==
  /\ mx.th[t].pc \in {"s245", "s246", "s247", "s250"}
  /\ mx.th[t].tmp = 0
  /\ mx' = [mx EXCEPT !.th[t].tmp = 1 + Read(mx.m, mx.th[t].pc, mx.th[t].kind)]
  /\ UNCHANGED <<srvVars, rpcVars, pk, pct, topo, hm>>

\* The write half of lines 245, 246, 247, 250 (tmp holds the value read, plus one).
RecordStore(t) ==
  /\ mx.th[t].pc \in {"s245", "s246", "s247", "s250"}
  /\ mx.th[t].tmp # 0
  /\ mx' = [mx EXCEPT !.m = Written(@, mx.th[t].pc, mx.th[t].kind,
                                     mx.th[t].tmp - 1 + Increment(mx.th[t].pc, mx.th[t].ok)),
                       !.th[t].tmp = 0,
                       !.th[t].pc = AfterStatement(@, mx.th[t].ok)]
  /\ UNCHANGED <<srvVars, rpcVars, pk, pct, topo, hm>>

\* Line 248.
RecordAppend(t) ==
  /\ mx.th[t].pc = "s248"
  /\ mx' = [mx EXCEPT !.m.by_kind[mx.th[t].kind].lat = Append(@, "ms"),
                       !.th[t].pc = AfterStatement(@, mx.th[t].ok)]
  /\ UNCHANGED <<srvVars, rpcVars, pk, pct, topo, hm>>

\* The with block is left, the lock released, _record returns.
RecordLeave(t) ==
  /\ mx.th[t].pc = "rel"
  /\ mx' = [mx EXCEPT !.lock = "free", !.th[t].pc = "idle", !.th[t].calls = @ + 1,
                       !.th[t].kind = "none", !.th[t].ok = FALSE]
  /\ UNCHANGED <<srvVars, rpcVars, pk, pct, topo, hm>>

NextMetrics ==
  \/ \E t \in Workers, kind \in RecordKinds, ok \in BOOLEAN : RecordEnter(t, kind, ok)
  \/ \E t \in Workers : RecordLoad(t)
  \/ \E t \in Workers : RecordStore(t)
  \/ \E t \in Workers : RecordAppend(t)
  \/ \E t \in Workers : RecordLeave(t)

SpecMetrics == Init /\ [][NextMetrics]_vars

\* ------------------------------------------------------------------ report
\* Line 248: one more latency sample in the list of a kind.
AddSample(x) ==
  /\ Len(pct.nums) < MaxSamples
  /\ ~pct.done
  /\ pct' = [pct EXCEPT !.nums = Append(@, x)]
  /\ UNCHANGED <<srvVars, rpcVars, pk, mx, topo, hm>>

\* Lines 367, 376: the report applies percentiles() to the list.
Report ==
  /\ ~pct.done
  /\ pct' = [pct EXCEPT !.done = TRUE, !.out = percentiles(pct.nums)]
  /\ UNCHANGED <<srvVars, rpcVars, pk, mx, topo, hm>>

NextReport ==
  \/ \E x \in 0..MaxLatency : AddSample(x)
  \/ Report

SpecReport == Init /\ [][NextReport]_vars

\* ------------------------------------------------------------------ declarations
\* The declaring process goes on unless the broker refused its declaration.
After(b, who, next) == IF \E e \in b.err : e.by = who THEN "failed" ELSE next

\* Lines 258-260 of connect_rabbit, one declaration at a time; a responder
\* process that is started again declares again.
ResponderDeclares ==
  /\ topo.srvPc \in {"new", "exchange", "queue"}
  /\ topo.srvPc = "new" => topo.srvRuns < MaxDeclares
  /\ topo' =
       IF topo.srvPc = "new"
       THEN [topo EXCEPT !.b = ExchangeDeclare(@, "reniec-server-py", ResponderExchange),
                         !.srvPc = After(ExchangeDeclare(topo.b, "reniec-server-py", ResponderExchange),
                                         "reniec-server-py", "exchange")]
       ELSE IF topo.srvPc = "exchange"
       THEN [topo EXCEPT !.b = QueueDeclare(@, "reniec-server-py", RequestQueue),
                         !.srvPc = After(QueueDeclare(topo.b, "reniec-server-py", RequestQueue),
                                         "reniec-server-py", "queue")]
       ELSE [topo EXCEPT !.b = QueueBind(@, "reniec-server-py", RequestBinding),
                         !.srvPc = After(QueueBind(topo.b, "reniec-server-py", RequestBinding),
                                         "reniec-server-py", "new"),
                         !.srvRuns = @ + 1]
  /\ UNCHANGED <<srvVars, rpcVars, pk, mx, pct, hm>>

\* Load client, lines 162-165 of Worker.__init__, one declaration at a time;
\* a later run of the load test creates worker w again.
WorkerDeclares(w) ==
  /\ topo.wPc[w] \in {"new", "exchange"}
  /\ topo.wPc[w] = "new" => topo.wRuns[w] < MaxDeclares
  /\ topo' =
       IF topo.wPc[w] = "new"
       THEN [topo EXCEPT !.b = ExchangeDeclare(@, LoadClient(w), WorkerExchange),
                         !.wPc[w] = After(ExchangeDeclare(topo.b, LoadClient(w), WorkerExchange),
                                          LoadClient(w), "exchange")]
       ELSE [topo EXCEPT !.b = QueueDeclare(@, LoadClient(w), ReplyQueue),
                         !.wPc[w] = After(QueueDeclare(topo.b, LoadClient(w), ReplyQueue),
                                          LoadClient(w), "ready"),
                         !.wRuns[w] = @ + 1]
  /\ UNCHANGED <<srvVars, rpcVars, pk, mx, pct, hm>>

\* Load client, lines 237-240: run() ends and closes channel and connection.
WorkerCloses(w) ==
  /\ topo.wPc[w] = "ready"
  /\ topo' = [topo EXCEPT !.b = ConnectionClosed(@, LoadClient(w)), !.wPc[w] = "new"]
  /\ UNCHANGED <<srvVars, rpcVars, pk, mx, pct, hm>>

NextTopology ==
  \/ ResponderDeclares
  \/ \E w \in Workers : WorkerDeclares(w)
  \/ \E w \in Workers : WorkerCloses(w)

SpecTopology == Init /\ [][NextTopology]_vars

\* ------------------------------------------------------------------ consume loop
\* on_message statement by statement, for the deliveries of one channel.  A
\* handling is at "lookup" (lines 292-300), "publish" (308-317), "ack" (320),
\* "probe" (322-325), "reconnect" (326-331), or it is "done" or "raised".

\* A consumer that calls on_message from a thread of its own per delivery.
ConsumerThreaded(run) == TRUE

\* Line 337: start_consuming() of the blocking connection calls on_message
\* from the thread that called it and takes the next delivery when the call
\* has returned.
ConsumerFree(run) == \A t \in Tags : run[t].pc \in {"none", "done"}

\* A use of the storage connection or of the channel by the handling of tag.
Event(tag, op) == [tag |-> tag, op |-> op]

\* An exception leaves on_message and start_consuming (lines 336-342): the
\* loop is over and the broker takes the unacknowledged deliveries back.
LoopEnds(h, raised) ==
  [h EXCEPT !.loop = AfterRaise(raised), !.ready = @ + Len(h.unacked), !.unacked = <<>>]

\* A request is published to the request queue.
StepPublish ==
  /\ hm.sent < MaxBurst
  /\ hm' = [hm EXCEPT !.sent = @ + 1, !.ready = @ + 1]
  /\ UNCHANGED <<srvVars, rpcVars, pk, mx, pct, topo>>

\* Lines 255, 333: the broker delivers within the prefetch limit, also while
\* on_message runs.
StepDeliver ==
  /\ hm.loop = "consuming"
  /\ hm.ready > 0
  /\ PrefetchAllows(Len(hm.unacked))
  /\ hm' = [hm EXCEPT !.ready = @ - 1, !.next = @ + 1, !.unacked = Append(@, hm.next)]
  /\ UNCHANGED <<srvVars, rpcVars, pk, mx, pct, topo>>

\* Line 268: on_message is called for the oldest delivery not yet handled.
Dispatch(replyTo) ==
  /\ hm.loop = "consuming"
  /\ ConsumerFree(hm.run)
  /\ \E t \in 1..(hm.next - 1) :
       /\ hm.run[t].pc = "none"
       /\ \A k \in 1..(t - 1) : hm.run[k].pc # "none"
       /\ hm' = [hm EXCEPT !.run[t] = [NoHandling EXCEPT !.pc = "lookup", !.replyTo = replyTo]]
  /\ UNCHANGED <<srvVars, rpcVars, pk, mx, pct, topo>>

\* Lines 292-300: get_person is called when a key was extracted; what it
\* raises is caught.
StepLookup(t, hasKey) ==
  /\ hm.run[t].pc = "lookup"
  /\ hm' = [hm EXCEPT !.run[t].pc = "publish",
                      !.log = IF LookupCalled(IF hasKey THEN K_FIXED ELSE Null)
                              THEN Append(@, Event(t, "lookup")) ELSE @]
  /\ UNCHANGED <<srvVars, rpcVars, pk, mx, pct, topo>>

\* Lines 308-317: basic_publish with a reply_to; it returns or raises.
StepReply(t, pubOk) ==
  /\ hm.run[t].pc = "publish"
  /\ ~pubOk => hm.run[t].replyTo
  /\ hm' = [hm EXCEPT !.run[t].pc = "ack",
                      !.run[t].pubTried = hm.run[t].replyTo,
                      !.run[t].pubOk = hm.run[t].replyTo /\ pubOk,
                      !.log = IF hm.run[t].replyTo THEN Append(@, Event(t, "publish")) ELSE @]
  /\ UNCHANGED <<srvVars, rpcVars, pk, mx, pct, topo>>

\* Line 320: basic_ack in the finally block; then the exception of the try
\* block, or of basic_ack, leaves on_message.
StepAck(t, ackOk) ==
  /\ hm.run[t].pc = "ack"
  /\ AckCalled(hm.run[t].pubTried, hm.run[t].pubOk)
  /\ hm' = IF ProbeRuns(hm.run[t].pubTried, hm.run[t].pubOk, ackOk)
           THEN [hm EXCEPT !.run[t].pc = "probe",
                           !.unacked = SelectSeq(@, LAMBDA k : k # t),
                           !.log = Append(@, Event(t, "ack"))]
           ELSE LoopEnds([hm EXCEPT !.run[t].pc = "raised",
                                    !.unacked = IF ackOk THEN SelectSeq(@, LAMBDA k : k # t) ELSE @,
                                    !.log = Append(@, Event(t, "ack"))],
                         IF ackOk THEN "publish" ELSE "ack")
  /\ UNCHANGED <<srvVars, rpcVars, pk, mx, pct, topo>>

\* Lines 322-325: SELECT 1 and rollback on the storage connection.
StepProbe(t, dbOk) ==
  /\ hm.run[t].pc = "probe"
  /\ hm' = [hm EXCEPT !.run[t].pc = IF ReconnectOnProbeFailure(~dbOk) THEN "reconnect" ELSE "done",
                      !.log = Append(@, Event(t, "probe"))]
  /\ UNCHANGED <<srvVars, rpcVars, pk, mx, pct, topo>>

\* Lines 326-331: close the handle and connect_db(), which returns or raises.
StepReconnect(t, reconnOk) ==
  /\ hm.run[t].pc = "reconnect"
  /\ hm' = IF reconnOk
           THEN [hm EXCEPT !.run[t].pc = "done", !.log = Append(@, Event(t, "reconnect"))]
           ELSE LoopEnds([hm EXCEPT !.run[t].pc = "raised",
                                    !.log = Append(@, Event(t, "reconnect"))], "reconnect")
  /\ UNCHANGED <<srvVars, rpcVars, pk, mx, pct, topo>>

NextSteps ==
  \/ StepPublish
  \/ StepDeliver
  \/ \E replyTo \in BOOLEAN : Dispatch(replyTo)
  \/ \E t \in Tags, hasKey \in BOOLEAN : StepLookup(t, hasKey)
  \/ \E t \in Tags, pubOk \in BOOLEAN : StepReply(t, pubOk)
  \/ \E t \in Tags, ackOk \in BOOLEAN : StepAck(t, ackOk)
  \/ \E t \in Tags, dbOk \in BOOLEAN : StepProbe(t, dbOk)
  \/ \E t \in Tags, reconnOk \in BOOLEAN : StepReconnect(t, reconnOk)

SpecSteps == Init /\ [][NextSteps]_vars

\* ------------------------------------------------------------ worker claims
\* The call worker w is in while it waits in rpc_call.
CurrentCall(w) == Call(w, wk[w].i, wk[w].phase, wk[w].j)

\* rpc_call of worker w returns a response in this step: it pops the entry
\* stored under its token (on_response only ever adds or replaces entries).
Returns(w) == Found(w) # {} /\ responses'[w] = responses[w] \ Found(w)

\* C3: no cross-talk.  Every rpc_call that returns a response returns a reply
\* carrying the token the call attached to its request, and that reply is the
\* one produced for this call's own request, not for another call of the same
\* or of another worker.
C3_NoCrossTalk ==
  [][\A w \in Workers :
       Returns(w) => \A e \in Found(w) : /\ e.correlation_id = wk[w].cid
                                         /\ e.tag = CurrentCall(w)]_vars

\* C6: the responses table of a worker never holds an entry for a token that
\* has no call in progress on that worker.
C6_NoStaleEntries ==
  \A w \in Workers : \A e \in responses[w] :
    wk[w].pc = "wait" /\ e.correlation_id = wk[w].cid

\* The calls a worker can be in.
Calls ==
  {Call(w, i, "Register", 0) : w \in Workers, i \in 0..(CLIENTS_PER_WORKER - 1)}
  \cup {Call(w, i, "Deposit", j) : w \in Workers, i \in 0..(CLIENTS_PER_WORKER - 1),
                                  j \in 0..(TX_PER_CLIENT - 1)}
  \cup {Call(w, i, "CreateLoan", j) : w \in Workers, i \in 0..(CLIENTS_PER_WORKER - 1),
                                     j \in 0..(LOANS_PER_CLIENT - 1)}

\* Worker c.from is inside the rpc_call c.
Waiting(c) == wk[c.from].pc = "wait" /\ CurrentCall(c.from) = c

\* The rpc_call worker w is in returns in this step.
CallEnds(w) ==
  /\ wk[w].pc = "wait"
  /\ wk'[w].pc # "wait" \/ CurrentCall(w)' # CurrentCall(w)

\* C11: an rpc_call that waits with the stop event set does not wait for ever;
\* a call that returns with no reply stored under its token returns the triple
\* (False, 0.0, {}) and does so only with the stop event set: with neither
\* reply nor stop event the call does not return.
C11_StopEndsTheWait ==
  /\ \A c \in Calls : (Waiting(c) /\ wk[c.from].stop) ~> ~Waiting(c)
  /\ [][\A w \in Workers :
          (CallEnds(w) /\ Found(w) = {}) =>
             (wk[w].stop /\ obs'[w].ret = FailureTriple)]_vars

\* A call was abandoned on the stop event and returned the failure triple.
C11_Witness ==
  \E w \in Workers : wk[w].stop /\ obs[w].ret = FailureTriple /\ obs[w].recs # <<>>

\* The calls of worker w whose request is published and whose reply has not
\* reached the worker: the request waits for the responder, or the reply
\* waits in the callback queue.
Outstanding(w) ==
  {bankQ[n].call : n \in {k \in 1..Len(bankQ) : bankQ[k].call.from = w}}
  \cup {replyQ[w][n].tag : n \in 1..Len(replyQ[w])}

\* The Register call of a unit is answered before a dependent request of the
\* unit is published.
RegisterFirst ==
  \A w \in Workers : \A c \in Outstanding(w) :
    c.kind # "Register" => Call(w, c.unit, "Register", 0) \notin Outstanding(w)

\* C12: within one worker the Register reply of a unit is received before a
\* Deposit or CreateLoan request of the unit is published, and the worker
\* never has more than one request outstanding.
C12_OneRequestOutstanding ==
  /\ RegisterFirst
  /\ \A w \in Workers : Cardinality(Outstanding(w)) <= 1

\* The requests of a unit whose Register succeeded with both identifiers.
FullUnit ==
  <<"Register">> \o [n \in 1..TX_PER_CLIENT |-> "Deposit"]
                \o [n \in 1..LOANS_PER_CLIENT |-> "CreateLoan"]

\* The kinds of the _record calls made for calls (RegisterParse is none).
RecordedCalls(w) ==
  SelectSeq([n \in 1..Len(obs[w].recs) |-> obs[w].recs[n].kind],
            LAMBDA k : k # "RegisterParse")

\* Worker w is between units, or done, and has run a unit.
UnitOver(w) == wk[w].pc \in {"top", "done"} /\ obs[w].issued # <<>>

\* The Register call of worker w returns in this step, failed or without the
\* identifiers.
RegisterFails(w) ==
  /\ CallEnds(w)
  /\ wk[w].phase = "Register"
  /\ ~obs'[w].ret.ok \/ ~ReplyHasIds(obs'[w].ret.resp)

\* The Register call of worker w returns in this step, ok and with identifiers.
RegisterSucceeds(w) ==
  /\ CallEnds(w)
  /\ wk[w].phase = "Register"
  /\ obs'[w].ret.ok /\ ReplyHasIds(obs'[w].ret.resp)

\* C13: a unit whose Register call fails (abandonment on stop included) or
\* whose reply lacks an identifier publishes nothing more and the loop goes to
\* its head for the next unit; a unit whose Register succeeds with both
\* identifiers publishes exactly TX_PER_CLIENT Deposit requests and then
\* LOANS_PER_CLIENT CreateLoan requests; every call has a _record call of its own.
C13_UnitShape ==
  /\ [][\A w \in Workers :
          /\ RegisterFails(w) =>
                /\ wk'[w].pc = "top" /\ wk'[w].i = wk[w].i + 1
                /\ bankQ' = bankQ
                /\ obs'[w].issued = <<"Register">>
          /\ RegisterSucceeds(w) =>
                /\ wk'[w].pc = "wait" /\ wk'[w].i = wk[w].i
                /\ obs'[w].issued = SubSeq(FullUnit, 1, 2)
          /\ (UnitOver(w)' /\ ~UnitOver(w)) =>
                /\ obs'[w].issued \in {<<"Register">>, FullUnit}
                /\ RecordedCalls(w)' = obs'[w].issued]_vars
  /\ [](\A w \in Workers :
          /\ obs[w].issued = SubSeq(FullUnit, 1, Len(obs[w].issued))
          /\ wk[w].pc = "wait" =>
                RecordedCalls(w) = SubSeq(obs[w].issued, 1, Len(obs[w].issued) - 1))

\* A worker that was never stopped has gone through its units, and the last
\* one ran in full: Register, the deposits, the loans, each recorded.
C13_Witness ==
  \E w \in Workers :
    /\ wk[w].i = CLIENTS_PER_WORKER
    /\ obs[w].issued = FullUnit
    /\ RecordedCalls(w) = FullUnit
    /\ ~wk[w].stop

\* The keys selected from the seeded range.
Seeded == {r \in pk.picked : ~r.fixed}

\* Two selections of distinct (worker, iteration) pairs from the seeded range
\* never give the same key.
SeededKeysDistinct ==
  \A a, b \in Seeded : (a.wid # b.wid \/ a.i # b.i) => a.dni # b.dni

\* A (worker, iteration) pair has one key, however often it is selected.
PickIsFunction ==
  \A a, b \in pk.picked : (a.wid = b.wid /\ a.i = b.i) => a.dni = b.dni

\* C14 as stated: pick_dni is a function of (worker, iteration), and distinct
\* pairs with worker < WORKERS and iteration < CLIENTS_PER_WORKER select
\* distinct keys from the seeded range.
C14_KeysDistinct == PickIsFunction /\ SeededKeysDistinct

\* C14 amended: the same, provided the seeded range has a key for every pair:
\* WORKERS * CLIENTS_PER_WORKER <= SEED_COUNT.
C14_KeysDistinctWithinSeed ==
  /\ PickIsFunction
  /\ WORKERS * CLIENTS_PER_WORKER <= pk.seed_count => SeededKeysDistinct

\* Every pair has selected its key from a seeded range that is large enough.
C14_Witness ==
  /\ WORKERS * CLIENTS_PER_WORKER <= pk.seed_count
  /\ Cardinality(Seeded) = WORKERS * CLIENTS_PER_WORKER

RECURSIVE SumOver(_, _)
SumOver(S, f) ==
  IF S = {} THEN 0
  ELSE LET x == CHOOSE y \in S : TRUE IN f[x] + SumOver(S \ {x}, f)

\* _record calls that have returned.
RecordCalls == SumOver(Workers, [t \in Workers |-> mx.th[t].calls])

\* No thread is inside _record.
Quiescent == \A t \in Workers : mx.th[t].pc = "idle"

\* C15: whenever no _record call is in progress, no update is lost: total is
\* the number of _record calls made and the sum of the per-kind counts, fail is
\* the sum over kinds of count - ok, and every kind has as many latency
\* samples as its count.
C15_NoLostUpdate ==
  Quiescent =>
    /\ mx.m.total = RecordCalls
    /\ mx.m.total = SumOver(RecordKinds, [k \in RecordKinds |-> mx.m.by_kind[k].count])
    /\ mx.m.fail = SumOver(RecordKinds, [k \in RecordKinds |->
                                           mx.m.by_kind[k].count - mx.m.by_kind[k].ok])
    /\ \A k \in RecordKinds : Len(mx.m.by_kind[k].lat) = mx.m.by_kind[k].count

\* Every thread has made all its calls, with failures and two kinds among them.
C15_Witness ==
  /\ Quiescent
  /\ RecordCalls = WORKERS * MaxRecords
  /\ mx.m.fail > 0 /\ mx.m.fail < mx.m.total
  /\ \A k \in RecordKinds : mx.m.by_kind[k].count > 0

\* The samples of the list percentiles() was applied to.
SamplesOf(nums) == {Sample(nums[n]) : n \in 1..Len(nums)}

\* C16: for a non-empty list of samples each of p50, p95, p99 is one of the
\* samples and p50 <= p95 <= p99; for the empty list each is None.
C16_PercentilesMonotonic ==
  pct.done =>
    IF pct.nums = <<>>
    THEN pct.out.p50 = Null /\ pct.out.p95 = Null /\ pct.out.p99 = Null
    ELSE /\ {pct.out.p50, pct.out.p95, pct.out.p99} \subseteq SamplesOf(pct.nums)
         /\ pct.out.p50.ms <= pct.out.p95.ms
         /\ pct.out.p95.ms <= pct.out.p99.ms

\* percentiles() was applied to an unsorted list and p50 is below p95.
C16_Witness ==
  /\ pct.done
  /\ Len(pct.nums) = MaxSamples
  /\ pct.nums # Sorted(pct.nums)
  /\ pct.out.p50.ms < pct.out.p95.ms

\* The resources stop() finds open, in the order it closes them.
OpenResources ==
  SelectSeq(<<"ch", "conn", "db">>,
            LAMBDA r : (r = "ch" /\ chOpen) \/ (r = "conn" /\ connOpen) \/ (r = "db" /\ dbOpen))

\* The resources a stop() call tried to close.
Attempted(call) == [n \in 1..Len(call) |-> call[n].res]

\* C17: a stop() call tries to close every resource it finds open, channel,
\* connection and storage handle, whether or not an earlier close() raised;
\* a stop() call made after another makes no close attempt.
C17_StopBestEffortIdempotent ==
  [][Len(stopLog') > Len(stopLog) =>
       /\ closing'
       /\ Attempted(stopLog'[Len(stopLog')]) = IF closing THEN <<>> ELSE OpenResources]_vars

\* The channel's close() raised, connection and storage handle were closed
\* all the same, and a second stop() call tried nothing.
C17_Witness ==
  /\ Len(stopLog) = 2
  /\ stopLog[1] = <<[res |-> "ch", ok |-> FALSE], [res |-> "conn", ok |-> TRUE],
                    [res |-> "db", ok |-> TRUE]>>
  /\ stopLog[2] = <<>>
  /\ ~connOpen /\ ~dbOpen

\* Some stop() call tried to close the resource and its close() raised.
CloseFailed(r) ==
  \E n \in 1..Len(stopLog) :
    \E a \in 1..Len(stopLog[n]) : stopLog[n][a] = [res |-> r, ok |-> FALSE]

\* C18: once start() has ended on a fatal condition, a connection that
\* failed at startup or an error that left the consume loop, stop() has run:
\* nothing the responder opened is open still, unless its close() raised.
C18_FatalRunsStop ==
  srv \in {"crashed", "stopped"} =>
    \A n \in 1..Len(OpenResources) : CloseFailed(OpenResources[n])

\* C19: the responder never holds more than PREFETCH deliveries it has not
\* acknowledged, it holds none before it consumes, and the broker hands over
\* a further delivery only while fewer than PREFETCH are unacknowledged.
C19_PrefetchBound ==
  /\ [](Len(inflight) <= PREFETCH)
  /\ [](srv = "new" => inflight = <<>>)
  /\ [][Len(inflight') > Len(inflight) => Len(inflight) < PREFETCH]_vars

\* PREFETCH deliveries are unacknowledged and the broker holds back a request.
C19_Witness ==
  /\ srv = "consuming"
  /\ Len(inflight) = PREFETCH
  /\ queue # <<>>

\* No two exchanges and no two queues of the broker share a name.
NoDuplicates ==
  /\ \A x, y \in topo.b.ex : x.name = y.name => x = y
  /\ \A x, y \in topo.b.qs : x.name = y.name => x = y

\* C20: whoever declares, and however often, the broker answers no
\* declaration with an error and holds no resource twice; once the responder
\* has declared the topology, exchange, request queue and binding are and
\* stay exactly what one declaration on an empty broker leaves.
C20_DeclareIdempotent ==
  /\ topo.b.err = {}
  /\ NoDuplicates
  /\ topo.b.ex \subseteq {ResponderExchange}
  /\ topo.srvRuns >= 1 => Durable(topo.b) = Durable(DeclareTopology(EmptyBroker, "reniec-server-py"))

\* The responder has declared the topology twice and every load client at
\* least once, and a load client holds its reply queue.
C20_Witness ==
  /\ topo.srvRuns = 2
  /\ \A w \in Workers : topo.wRuns[w] >= 1
  /\ \E x \in topo.b.qs : x.exclusive
  /\ topo.b.err = {}

\* Two extraction results are the same: both no key, or the same digits.
SameKey(a, b) == IF a = Null THEN b = Null ELSE (b # Null /\ a = b)

\* A value that is there and is not the empty string.
NonEmpty(v) == v # Null /\ v # Str(<<>>)

\* The member of the body the n-th place is read through (none for the first).
Container(body, n) == IF n = 1 THEN Null ELSE IF n = 2 THEN body.data ELSE body.payload

\* The or-chain ends at the n-th place: the member it reads through is a
\* non-empty value that is no object, or the value there is truthy.
Blocked(body, n) == Truthy(Container(body, n)) /\ Container(body, n).t # "dict"
EndsAt(body, n) == Blocked(body, n) \/ Truthy(Candidates(body)[n])

TokensInUse(w, c) ==
  {q.corr : q \in {x \in {bankQ[n] : n \in 1..Len(bankQ)} : x.call.from = w /\ x.call # c}}
  \cup {e.correlation_id : e \in {x \in {replyQ[w][n] : n \in 1..Len(replyQ[w])} : x.tag # c}}
  \cup {e.correlation_id : e \in {x \in responses[w] : x.tag # c}}

\* C22: the responses table of a worker holds at most one entry per token,
\* and the token of the call a worker is in is the token of no other call of
\* that worker that is outstanding or whose reply is retained.
C22_TokenNotReused ==
  \A w \in Workers :
    /\ \A e, f \in responses[w] : e.correlation_id = f.correlation_id => e = f
    /\ wk[w].pc = "wait" => wk[w].cid \notin TokensInUse(w, CurrentCall(w))

\* on_message has run for a delivery in this step and its reply publish raised.
PublishFailed == last'.tag # last.tag /\ last'.pubTried /\ ~last'.pubOk

\* The requests the broker holds, ready or delivered and unacknowledged.
Held == Len(queue) + Len(inflight)

\* C23 as stated: a delivery has at most one reply publish, and a handled
\* delivery gets none later; when the publish fails basic_ack is still called
\* and the request is gone from the broker, so it cannot be delivered again.
C23_FailedPublishNotRedelivered ==
  [][/\ \A p \in pubLog' \ pubLog : p.pub.tag = last'.tag /\ p.pub.tag \notin handled
     /\ last'.tag # last.tag => Cardinality({p \in pubLog' : p.pub.tag = last'.tag}) <= 1
     /\ PublishFailed => /\ ackCalls'[last'.tag] = 1
                         /\ Held' = Held - 1]_vars

\* C23 amended: a delivery has at most one reply publish, and a handled
\* delivery gets none later; when the publish fails the response is dropped,
\* basic_ack is still called, once, and the responder stops; the request is
\* gone from the broker if that basic_ack succeeds, and stays with the broker,
\* back in the queue for the next consumer, if it raises as well.
C23_AtMostOnceReply ==
  [][/\ \A p \in pubLog' \ pubLog : p.pub.tag = last'.tag /\ p.pub.tag \notin handled
     /\ last'.tag # last.tag => Cardinality({p \in pubLog' : p.pub.tag = last'.tag}) <= 1
     /\ PublishFailed => /\ ackCalls'[last'.tag] = 1
                         /\ \A p \in pubLog' : p.pub.tag = last'.tag => ~p.ok
                         /\ srv' = "stopped"
                         /\ inflight' = <<>>
                         /\ Held' = IF last'.ackOk THEN Held - 1 ELSE Held]_vars

\* The reply publish raised, the acknowledge went through: one failed publish
\* is logged for the delivery and the broker no longer holds the request.
C23_Witness ==
  /\ Handled
  /\ last.pubTried /\ ~last.pubOk /\ last.ackOk
  /\ \E p \in PubsOf(last.tag) : ~p.ok
  /\ nPublished = 1 /\ queue = <<>> /\ inflight = <<>>

\* The requests of worker w among those the responder has not answered yet.
Unanswered(w) == SelectSeq(bankQ, LAMBDA q : q.call.from = w)

\* C24: a worker whose stop event is set publishes no further request and
\* starts no further client unit.
C24_StoppedWorkerPublishesNothing ==
  [][\A w \in Workers :
       wk[w].stop => /\ Len(Unanswered(w)') <= Len(Unanswered(w))
                     /\ wk'[w].phase = "Register" => wk[w].phase = "Register"]_vars

\* The place of a statement of on_message in its order.
Rank(op) ==
  IF op = "lookup" THEN 1
  ELSE IF op = "publish" THEN 2
  ELSE IF op = "ack" THEN 3
  ELSE IF op = "probe" THEN 4
  ELSE 5

\* The deliveries on_message is running for.
Running == {t \in Tags : hm.run[t].pc \notin {"none", "done", "raised"}}

\* C25: on_message runs for one delivery at a time; what it does for a
\* delivery comes in the order lookup, publish, ack, probe, reconnect, and all
\* of it before anything is done for the next delivery; a delivery with a
\* reply_to is not acknowledged before its publish was attempted.
C25_OneAtATimeInOrder ==
  /\ Cardinality(Running) <= 1
  /\ \A i, j \in 1..Len(hm.log) :
       i < j => \/ hm.log[i].tag < hm.log[j].tag
                \/ hm.log[i].tag = hm.log[j].tag /\ Rank(hm.log[i].op) < Rank(hm.log[j].op)
  /\ \A j \in 1..Len(hm.log) :
       (hm.log[j].op = "ack" /\ hm.run[hm.log[j].tag].replyTo) =>
          \E i \in 1..(j - 1) : hm.log[i] = Event(hm.log[j].tag, "publish")

\* The second delivery arrived while the first was handled; the first
\* handling went through lookup, publish, ack, probe and reconnect before the
\* lookup of the second.
C25_Witness ==
  /\ Len(hm.log) >= 6
  /\ [n \in 1..6 |-> hm.log[n]] =
       <<Event(1, "lookup"), Event(1, "publish"), Event(1, "ack"), Event(1, "probe"),
         Event(1, "reconnect"), Event(2, "lookup")>>
  /\ hm.run[2].pc = "publish"
  /\ Len(hm.unacked) = PREFETCH

====
